---- MODULE Spec2Model ----
(***************************************************************************)
(* Model of deploy_tileset (scripts/http_host/http_host_lib/               *)
(* deploy_tileset.py): the per-area reconciliation of the published tile   *)
(* version against the local version file and the mounted artifact.        *)
(*                                                                         *)
(* Text is a sequence of one-character strings.  A Python Optional is a    *)
(* sequence of length 0 (None) or 1 (the value).                           *)
(***************************************************************************)
EXTENDS Naturals, Sequences, FiniteSets, TLC

\* ------------------------------------------------------------- data model
None == <<>>
Some(v) == <<v>>

\* for area in ['planet', 'monaco']
AreaList == <<"planet", "monaco">>
Areas == {AreaList[i] : i \in 1..Len(AreaList)}

\* bodies the version source can answer with (r.text)
RemoteTexts == { <<>>, <<" ">>, <<"a", " ">>, <<"b">> }

IsSpace(c) == c = " "

RECURSIVE LStrip(_)
LStrip(s) == IF s # <<>> /\ IsSpace(Head(s)) THEN LStrip(Tail(s)) ELSE s

RECURSIVE RStrip(_)
RStrip(s) == IF s # <<>> /\ IsSpace(s[Len(s)])
             THEN RStrip(SubSeq(s, 1, Len(s) - 1)) ELSE s

\* str.strip()
Strip(s) == RStrip(LStrip(s))

\* the non-empty version identifiers the source can publish
Versions == {Strip(t) : t \in RemoteTexts} \ {<<>>}

\* what a local version file can hold: anything fp.write put there, or
\* nothing at all right after open(..., 'w')
FileTexts == Versions \cup {<<>>}

\* the processes that may call deploy_tileset on one host
Runs == {"timer", "operator"}
\* a single scheduled invocation at a time
SeqRuns == {"timer"}

VARIABLES
  remote,               \* area -> Optional body of deployed_tiles_{area}.txt on the assets host
  mnt,                  \* <<area, version>> pairs whose /mnt/ofm/{area}-{version}/metadata.json exists
  files,                \* area -> Optional content of /data/ofm/config/deployed_tiles_{area}.txt
  pc,                   \* run -> position in deploy_tileset
  area,                 \* run -> index in AreaList of the loop variable
  remote_version,       \* run -> local variable
  local_version_start,  \* run -> local variable (Optional)
  need_nginx_sync,      \* run -> local variable
  at,                   \* run -> position at which the run raised or was killed
  ops,                  \* run -> area -> last file operation this run performed on the area's record
  checked,              \* run -> <<area, version>> pairs whose metadata.json this run saw existing
  start_files,          \* run -> content of files when the run started
  prev_returned,        \* run -> the run started right after a returned run, same environment
  unsignalled           \* a record was changed since the environment last changed and no run has returned True since

vars == <<remote, mnt, files, pc, area, remote_version, local_version_start,
          need_nginx_sync, at, ops, checked, start_files, prev_returned, unsignalled>>

locals == <<area, remote_version, local_version_start, need_nginx_sync>>
ghosts == <<ops, checked, start_files, prev_returned, unsignalled>>

Active == {"fetch", "exists", "read", "branch", "unlink", "open", "write"}
Ended == {"idle", "returned", "raised", "killed"}

NoOps == [a \in Areas |-> "none"]

Cur(r) == AreaList[area[r]]

Init ==
  /\ remote \in [Areas -> {None} \cup {Some(t) : t \in RemoteTexts}]
  /\ mnt \in SUBSET (Areas \X Versions)
  /\ files = [a \in Areas |-> None]
  /\ pc = [r \in Runs |-> "idle"]
  /\ area = [r \in Runs |-> 1]
  /\ remote_version = [r \in Runs |-> <<>>]
  /\ local_version_start = [r \in Runs |-> None]
  /\ need_nginx_sync = [r \in Runs |-> FALSE]
  /\ at = [r \in Runs |-> "idle"]
  /\ ops = [r \in Runs |-> NoOps]
  /\ checked = [r \in Runs |-> {}]
  /\ start_files = [r \in Runs |-> [a \in Areas |-> None]]
  /\ prev_returned = [r \in Runs |-> FALSE]
  /\ unsignalled = FALSE

\* The version source and the mounts change while no run is in progress;
\* what earlier runs left in their frames is gone by then.
ForgetRuns ==
  /\ \A r \in Runs : pc[r] \in Ended
  /\ pc' = [r \in Runs |-> "idle"]
  /\ area' = [r \in Runs |-> 1]
  /\ remote_version' = [r \in Runs |-> <<>>]
  /\ local_version_start' = [r \in Runs |-> None]
  /\ need_nginx_sync' = [r \in Runs |-> FALSE]
  /\ at' = [r \in Runs |-> "idle"]
  /\ ops' = [r \in Runs |-> NoOps]
  /\ checked' = [r \in Runs |-> {}]
  /\ start_files' = [r \in Runs |-> files]
  /\ prev_returned' = [r \in Runs |-> FALSE]
  /\ UNCHANGED files

\* a new body (or an outage) behind versions/deployed_tiles_{area}.txt; the
\* end of an outage shows the version that was published all along, anything
\* else is a change of the published versions
RemoteChange ==
  /\ ForgetRuns
  /\ \E a \in Areas : \E resp \in ({None} \cup {Some(t) : t \in RemoteTexts}) \ {remote[a]} :
       /\ remote' = [remote EXCEPT ![a] = resp]
       /\ unsignalled' = (unsignalled /\ remote[a] = None)
  /\ UNCHANGED mnt

\* a tileset is mounted under /mnt/ofm, or a mounted one disappears
MntChange ==
  /\ ForgetRuns
  /\ \E m \in Areas \X Versions :
       mnt' = IF m \in mnt THEN mnt \ {m} ELSE mnt \cup {m}
  /\ unsignalled' = FALSE
  /\ UNCHANGED remote

\* def deploy_tileset(): need_nginx_sync = False; first iteration of the loop
StartRun(r) ==
  /\ pc[r] \in Ended
  /\ pc' = [pc EXCEPT ![r] = "fetch"]
  /\ area' = [area EXCEPT ![r] = 1]
  /\ need_nginx_sync' = [need_nginx_sync EXCEPT ![r] = FALSE]
  /\ remote_version' = [remote_version EXCEPT ![r] = <<>>]
  /\ local_version_start' = [local_version_start EXCEPT ![r] = None]
  /\ at' = [at EXCEPT ![r] = "idle"]
  /\ ops' = [ops EXCEPT ![r] = NoOps]
  /\ checked' = [checked EXCEPT ![r] = {}]
  /\ start_files' = [start_files EXCEPT ![r] = files]
  /\ prev_returned' = [prev_returned EXCEPT ![r] = (pc[r] = "returned")]
  /\ UNCHANGED <<remote, mnt, files, unsignalled>>

\* an exception leaves deploy_tileset: nothing catches it
Raise(r) ==
  /\ pc' = [pc EXCEPT ![r] = "raised"]
  /\ at' = [at EXCEPT ![r] = pc[r]]

\* end of the loop body (or continue): next area, or return need_nginx_sync
NextArea(r) ==
  /\ IF area[r] < Len(AreaList)
     THEN /\ area' = [area EXCEPT ![r] = area[r] + 1]
          /\ pc' = [pc EXCEPT ![r] = "fetch"]
     ELSE /\ area' = area
          /\ pc' = [pc EXCEPT ![r] = "returned"]
  /\ at' = at

\* bookkeeping of unsignalled for a step of run r: a change of a record is
\* pending until a call returns True to its caller
Track(r, changes_record) ==
  unsignalled' = IF pc'[r] = "returned" /\ need_nginx_sync'[r]
                 THEN FALSE
                 ELSE (unsignalled \/ changes_record)

\* r = requests.get(...); r.raise_for_status(); remote_version = r.text.strip()
Fetch(r) ==
  /\ pc[r] = "fetch"
  /\ IF remote[Cur(r)] = None
     THEN /\ Raise(r)
          /\ UNCHANGED <<locals>>
     ELSE /\ remote_version' = [remote_version EXCEPT ![r] = Strip(remote[Cur(r)][1])]
          /\ pc' = [pc EXCEPT ![r] = "exists"]
          /\ UNCHANGED <<area, local_version_start, need_nginx_sync, at>>
  /\ UNCHANGED <<remote, mnt, files, ghosts>>

\* local_version_file.exists()
LocalFileExists(a) == files[a] # None

\* Exists that takes the file for missing whatever is on disk
ExistsAlwaysNone(r) ==
  /\ pc[r] = "exists"
  /\ local_version_start' = [local_version_start EXCEPT ![r] = None]
  /\ pc' = [pc EXCEPT ![r] = "branch"]
  /\ UNCHANGED <<remote, mnt, files, area, remote_version, need_nginx_sync, at, ghosts>>

\* if not local_version_file.exists(): local_version_start = None
Exists(r) ==
  /\ pc[r] = "exists"
  /\ IF ~LocalFileExists(Cur(r))
     THEN /\ local_version_start' = [local_version_start EXCEPT ![r] = None]
          /\ pc' = [pc EXCEPT ![r] = "branch"]
     ELSE /\ local_version_start' = local_version_start
          /\ pc' = [pc EXCEPT ![r] = "read"]
  /\ UNCHANGED <<remote, mnt, files, area, remote_version, need_nginx_sync, at, ghosts>>

\* with open(local_version_file) as fp: local_version_start = fp.read()
Read(r) ==
  /\ pc[r] = "read"
  /\ LocalFileExists(Cur(r))
  /\ local_version_start' = [local_version_start EXCEPT ![r] = files[Cur(r)]]
  /\ pc' = [pc EXCEPT ![r] = "branch"]
  /\ UNCHANGED <<remote, mnt, files, area, remote_version, need_nginx_sync, at, ghosts>>

\* open(local_version_file) of a file removed since exists(): FileNotFoundError
ReadMissing(r) ==
  /\ pc[r] = "read"
  /\ ~LocalFileExists(Cur(r))
  /\ Raise(r)
  /\ UNCHANGED <<remote, mnt, files, locals, ghosts>>

\* mnt_file = Path(f'/mnt/ofm/{area}-{remote_version}/metadata.json'); mnt_file.exists()
MntFileExists(a, v) == <<a, v>> \in mnt

\* Decision without the mnt_file.exists() test
DecisionNoMntCheck(a, rv, lvs) ==
  IF rv = <<>> THEN (IF lvs # None THEN "unlink" ELSE "continue")
  ELSE IF Some(rv) # lvs THEN "open"
  ELSE "continue"

\* Decision whose missing-artifact branch never unlinks
DecisionNoRetire(a, rv, lvs) ==
  IF rv = <<>> THEN (IF lvs # None THEN "unlink" ELSE "continue")
  ELSE IF ~MntFileExists(a, rv) THEN "continue"
  ELSE IF Some(rv) # lvs THEN "open"
  ELSE "continue"

\* Decision whose missing-artifact branch unlinks only a record equal to the remote version
DecisionKeepOther(a, rv, lvs) ==
  IF rv = <<>> THEN (IF lvs # None THEN "unlink" ELSE "continue")
  ELSE IF ~MntFileExists(a, rv) THEN (IF lvs = Some(rv) THEN "unlink" ELSE "continue")
  ELSE IF Some(rv) # lvs THEN "open"
  ELSE "continue"

\* Decision without the remote_version != local_version_start test
DecisionAlwaysWrite(a, rv, lvs) ==
  IF rv = <<>> THEN (IF lvs # None THEN "unlink" ELSE "continue")
  ELSE IF ~MntFileExists(a, rv) THEN (IF lvs # None THEN "unlink" ELSE "continue")
  ELSE "open"

\* Decision whose empty-remote branch leaves the record alone
DecisionEmptyKeeps(a, rv, lvs) ==
  IF rv = <<>> THEN "continue"
  ELSE IF ~MntFileExists(a, rv) THEN (IF lvs # None THEN "unlink" ELSE "continue")
  ELSE IF Some(rv) # lvs THEN "open"
  ELSE "continue"

\* the three tests of the loop body, in the order the code makes them
Decision(a, rv, lvs) ==
  IF rv = <<>> THEN (IF lvs # None THEN "unlink" ELSE "continue")
  ELSE IF ~MntFileExists(a, rv) THEN (IF lvs # None THEN "unlink" ELSE "continue")
  ELSE IF Some(rv) # lvs THEN "open"
  ELSE "continue"

\* if not remote_version: ... / if not mnt_file.exists(): ... / if remote_version != local_version_start:
Branch(r) ==
  /\ pc[r] = "branch"
  /\ LET a == Cur(r)
         rv == remote_version[r]
         d == Decision(a, rv, local_version_start[r])
     IN /\ checked' = [checked EXCEPT ![r] =
                         IF rv # <<>> /\ MntFileExists(a, rv) THEN @ \cup {<<a, rv>>} ELSE @]
        /\ IF d = "continue"
           THEN NextArea(r)
           ELSE /\ pc' = [pc EXCEPT ![r] = d]
                /\ UNCHANGED <<area, at>>
  /\ UNCHANGED <<remote, mnt, files, remote_version, local_version_start,
                 need_nginx_sync, ops, start_files, prev_returned>>
  /\ Track(r, FALSE)

\* Unlink without need_nginx_sync = True
UnlinkNoFlag(r) ==
  /\ pc[r] = "unlink"
  /\ files[AreaList[area[r]]] # None
  /\ files' = [files EXCEPT ![AreaList[area[r]]] = None]
  /\ ops' = [ops EXCEPT ![r][AreaList[area[r]]] = "unlink"]
  /\ NextArea(r)
  /\ UNCHANGED <<remote, mnt, remote_version, local_version_start, need_nginx_sync,
                 checked, start_files, prev_returned>>
  /\ Track(r, TRUE)

\* local_version_file.unlink(); need_nginx_sync = True; continue
Unlink(r) ==
  /\ pc[r] = "unlink"
  /\ LocalFileExists(Cur(r))
  /\ files' = [files EXCEPT ![Cur(r)] = None]
  /\ need_nginx_sync' = [need_nginx_sync EXCEPT ![r] = TRUE]
  /\ ops' = [ops EXCEPT ![r][Cur(r)] = "unlink"]
  /\ NextArea(r)
  /\ UNCHANGED <<remote, mnt, remote_version, local_version_start,
                 checked, start_files, prev_returned>>
  /\ Track(r, TRUE)

\* unlink() of a file that is no longer there: FileNotFoundError (no missing_ok)
UnlinkMissing(r) ==
  /\ pc[r] = "unlink"
  /\ ~LocalFileExists(Cur(r))
  /\ Raise(r)
  /\ UNCHANGED <<remote, mnt, files, locals, ghosts>>

\* UnlinkError inside a try/except that goes on with the loop
UnlinkErrorSwallowed(r) ==
  /\ pc[r] = "unlink"
  /\ files[AreaList[area[r]]] # None
  /\ ops' = [ops EXCEPT ![r][AreaList[area[r]]] = "unlink_failed"]
  /\ NextArea(r)
  /\ UNCHANGED <<remote, mnt, files, remote_version, local_version_start, need_nginx_sync,
                 checked, start_files, prev_returned>>
  /\ Track(r, FALSE)

\* unlink() fails with another OSError: the file stays, the flag is not set
UnlinkError(r) ==
  /\ pc[r] = "unlink"
  /\ LocalFileExists(Cur(r))
  /\ Raise(r)
  /\ ops' = [ops EXCEPT ![r][Cur(r)] = "unlink_failed"]
  /\ UNCHANGED <<remote, mnt, files, locals, checked, start_files, prev_returned, unsignalled>>

\* open(local_version_file, 'w'): creates the file or truncates it
OpenW(r) ==
  /\ pc[r] = "open"
  /\ files' = [files EXCEPT ![Cur(r)] = Some(<<>>)]
  /\ ops' = [ops EXCEPT ![r][Cur(r)] = "open"]
  /\ pc' = [pc EXCEPT ![r] = "write"]
  /\ UNCHANGED <<remote, mnt, locals, at, checked, start_files, prev_returned>>
  /\ Track(r, TRUE)

\* open(local_version_file, 'w') fails: nothing touched
OpenError(r) ==
  /\ pc[r] = "open"
  /\ Raise(r)
  /\ ops' = [ops EXCEPT ![r][Cur(r)] = "open_failed"]
  /\ UNCHANGED <<remote, mnt, files, locals, checked, start_files, prev_returned, unsignalled>>

\* Write of the body as received, without strip()
WriteUnstripped(r) ==
  /\ pc[r] = "write"
  /\ files' = [files EXCEPT ![AreaList[area[r]]] = Some(remote[AreaList[area[r]]][1])]
  /\ need_nginx_sync' = [need_nginx_sync EXCEPT ![r] = TRUE]
  /\ ops' = [ops EXCEPT ![r][AreaList[area[r]]] = "write"]
  /\ NextArea(r)
  /\ UNCHANGED <<remote, mnt, remote_version, local_version_start,
                 checked, start_files, prev_returned>>
  /\ Track(r, TRUE)

\* fp.write(remote_version), flushed when the with block closes fp; need_nginx_sync = True
Write(r) ==
  /\ pc[r] = "write"
  /\ files' = [files EXCEPT ![Cur(r)] = Some(remote_version[r])]
  /\ need_nginx_sync' = [need_nginx_sync EXCEPT ![r] = TRUE]
  /\ ops' = [ops EXCEPT ![r][Cur(r)] = "write"]
  /\ NextArea(r)
  /\ UNCHANGED <<remote, mnt, remote_version, local_version_start,
                 checked, start_files, prev_returned>>
  /\ Track(r, TRUE)

\* the write or the close fails (disk full, I/O error): the file stays truncated
WriteError(r) ==
  /\ pc[r] = "write"
  /\ Raise(r)
  /\ ops' = [ops EXCEPT ![r][Cur(r)] = "write_failed"]
  /\ UNCHANGED <<remote, mnt, files, locals, checked, start_files, prev_returned, unsignalled>>

\* the process is killed (crash, power loss, SIGKILL) anywhere in the run
Kill(r) ==
  /\ pc[r] \in Active
  /\ pc' = [pc EXCEPT ![r] = "killed"]
  /\ at' = [at EXCEPT ![r] = pc[r]]
  /\ UNCHANGED <<remote, mnt, files, locals, ghosts>>

\* ------------------------------------------------------- specifications
\* one invocation at a time, with I/O errors and crashes
Next ==
  \/ RemoteChange
  \/ MntChange
  \/ \E r \in SeqRuns :
       \/ StartRun(r) \/ Fetch(r) \/ Exists(r) \/ Read(r) \/ Branch(r)
       \/ Unlink(r) \/ UnlinkError(r) \/ OpenW(r) \/ OpenError(r)
       \/ Write(r) \/ WriteError(r) \/ Kill(r)

Spec == Init /\ [][Next]_vars

\* one invocation at a time that ends by return or by an exception, never by a crash
NextNoCrash ==
  \/ RemoteChange
  \/ MntChange
  \/ \E r \in SeqRuns :
       \/ StartRun(r) \/ Fetch(r) \/ Exists(r) \/ Read(r) \/ Branch(r)
       \/ Unlink(r) \/ UnlinkError(r) \/ OpenW(r) \/ OpenError(r)
       \/ Write(r) \/ WriteError(r)

SpecNoCrash == Init /\ [][NextNoCrash]_vars

\* two invocations (the timer's and an operator's) on the same files, no I/O errors
NextConc ==
  \/ RemoteChange
  \/ MntChange
  \/ \E r \in Runs :
       \/ StartRun(r) \/ Fetch(r) \/ Exists(r) \/ Read(r) \/ ReadMissing(r)
       \/ Branch(r) \/ Unlink(r) \/ UnlinkMissing(r) \/ OpenW(r) \/ Write(r)

SpecConc == Init /\ [][NextConc]_vars

\* ------------------------------------------------------------ vocabulary
Index(a) == CHOOSE i \in 1..Len(AreaList) : AreaList[i] = a

\* the run has finished its pass over area a
Passed(r, a) == pc[r] # "idle" /\ (Index(a) < area[r] \/ pc[r] = "returned")

\* the version the source publishes for a (defined when the lookup succeeds)
RemoteVersion(a) == Strip(remote[a][1])

\* the run changed the record of area a and went on
Changed(r, a) == ops[r][a] \in {"unlink", "write"}

\* the remote version of a is non-empty and its artifact is mounted
Adoptable(a) == RemoteVersion(a) # <<>> /\ <<a, RemoteVersion(a)>> \in mnt

TypeOK ==
  /\ files \in [Areas -> {None} \cup {Some(t) : t \in FileTexts}]
  /\ \A r \in Runs : pc[r] \in Active \cup Ended
  /\ \A r \in Runs : \A a \in Areas :
       ops[r][a] \in {"none", "unlink", "open", "write",
                      "unlink_failed", "open_failed", "write_failed"}

\* ------------------------------------------------------------------ C1
\* C1 (I1): a run is about to write, or has written, a version V into the
\* record of area A only if in the same pass over A it saw the metadata.json
\* of (A, V) existing, and that answer was true.
I1_WriteOnlyAfterAvailable ==
  \A r \in SeqRuns : \A a \in Areas :
    /\ (pc[r] \in {"open", "write"} /\ Cur(r) = a) => <<a, remote_version[r]>> \in checked[r]
    /\ ops[r][a] \in {"open", "write"} => <<a, RemoteVersion(a)>> \in checked[r]
    /\ ops[r][a] = "write" => files[a] # None /\ <<a, files[a][1]>> \in checked[r]
    /\ checked[r] \subseteq mnt

W1_RecordUpdatedToCheckedVersion ==
  \E r \in SeqRuns : \E a \in Areas :
    /\ ops[r][a] = "write"
    /\ start_files[r][a] \notin {None, files[a]}
    /\ <<a, files[a][1]>> \in checked[r]

\* ------------------------------------------------------------------ C2
\* C2 as claimed: a record holding a version V1 whose artifact is unavailable
\* is deleted by a run that returns, whatever the remote version is, and the
\* run returns true.
C2_RetireRegardlessOfRemote ==
  \A r \in SeqRuns : \A a \in Areas :
    ( /\ pc[r] = "returned"
      /\ start_files[r][a] # None
      /\ start_files[r][a][1] \in Versions
      /\ <<a, start_files[r][a][1]>> \notin mnt )
    => (files[a] = None /\ need_nginx_sync[r])

\* C2 amended: once the pass over A is finished, a record V1 whose artifact is
\* unavailable has been deleted, unless the remote version is a different
\* version with an available artifact, which the record then holds; the flag
\* is true either way.
C2_RetireOrReplace ==
  \A r \in SeqRuns : \A a \in Areas :
    ( /\ Passed(r, a)
      /\ start_files[r][a] # None
      /\ <<a, start_files[r][a][1]>> \notin mnt )
    => /\ need_nginx_sync[r]
       /\ files[a] = IF Adoptable(a) THEN Some(RemoteVersion(a)) ELSE None

W2_RetiredOnDisappearance ==
  \E r \in SeqRuns : \E a \in Areas :
    /\ pc[r] = "returned"
    /\ start_files[r][a] # None
    /\ start_files[r][a][1] = RemoteVersion(a)
    /\ <<a, RemoteVersion(a)>> \notin mnt
    /\ files[a] = None
    /\ need_nginx_sync[r]

\* ------------------------------------------------------------------ C3
\* C3 as claimed: with a record V and a non-empty remote version W # V whose
\* artifact is not available, the pass leaves the record untouched.
C3_UnavailableCandidateKeepsRecord ==
  \A r \in SeqRuns : \A a \in Areas :
    ( /\ Passed(r, a)
      /\ start_files[r][a] # None
      /\ start_files[r][a][1] \in Versions
      /\ RemoteVersion(a) # <<>>
      /\ Some(RemoteVersion(a)) # start_files[r][a]
      /\ <<a, RemoteVersion(a)>> \notin mnt )
    => (files[a] = start_files[r][a] /\ ops[r][a] = "none")

\* C3 amended: in that case the pass deletes the record and the area sets the
\* changed flag.
C3_UnavailableCandidateRetiresRecord ==
  \A r \in SeqRuns : \A a \in Areas :
    ( /\ Passed(r, a)
      /\ start_files[r][a] # None
      /\ RemoteVersion(a) # <<>>
      /\ Some(RemoteVersion(a)) # start_files[r][a]
      /\ <<a, RemoteVersion(a)>> \notin mnt )
    => (files[a] = None /\ ops[r][a] = "unlink" /\ need_nginx_sync[r])

W3_MountedRecordRetiredForUnmountedCandidate ==
  \E r \in SeqRuns : \E a \in Areas :
    /\ Passed(r, a)
    /\ start_files[r][a] # None
    /\ <<a, start_files[r][a][1]>> \in mnt
    /\ RemoteVersion(a) # <<>>
    /\ Some(RemoteVersion(a)) # start_files[r][a]
    /\ <<a, RemoteVersion(a)>> \notin mnt
    /\ files[a] = None

\* ------------------------------------------------------------------ C4
\* C4 as claimed: when the lookup fails for one area, every other area whose
\* lookup works is still reconciled in that run.
C4_SourceFailureIsolated ==
  \A r \in SeqRuns :
    (pc[r] = "raised" /\ at[r] = "fetch")
    => \A a \in Areas \ {Cur(r)} : remote[a] # None => Passed(r, a)

\* ------------------------------------------------------------------ C5
\* C5 (I2): the flag of a run is true exactly when the run has changed the
\* record of an area it has passed; a run that returns returns true exactly
\* when it created, updated or deleted a record; a set flag stays set.
I2_FlagIsOrOfChanges ==
  \A r \in SeqRuns :
    /\ need_nginx_sync[r] <=> \E a \in Areas : Passed(r, a) /\ Changed(r, a)
    /\ pc[r] = "returned" =>
         /\ need_nginx_sync[r] <=> files # start_files[r]
         /\ \A a \in Areas : Changed(r, a) <=> files[a] # start_files[r][a]
         /\ \A a \in Areas : ops[r][a] \in {"none", "unlink", "write"}

W5_FirstChangedSecondUnchanged ==
  \E r \in SeqRuns :
    /\ pc[r] = "returned"
    /\ Changed(r, AreaList[1])
    /\ ops[r][AreaList[2]] = "none"
    /\ files[AreaList[2]] # None
    /\ need_nginx_sync[r]

\* ------------------------------------------------------------------ C6
\* C6 (idempotence): a run started right after a run that returned, with the
\* same remote versions and mounts, performs no file operation and, if it
\* returns, returns false.
C6_SecondRunIsNoOp ==
  \A r \in SeqRuns :
    prev_returned[r] =>
      /\ \A a \in Areas : ops[r][a] = "none"
      /\ files = start_files[r]
      /\ ~need_nginx_sync[r]
      /\ pc[r] \notin {"unlink", "open", "write"}

W6_SecondRunReturnedFalse ==
  \E r \in SeqRuns :
    /\ prev_returned[r]
    /\ pc[r] = "returned"
    /\ ~need_nginx_sync[r]
    /\ \A a \in Areas : files[a] # None

\* ------------------------------------------------------------------ C7
\* C7 (empty remote): for an area whose remote version is empty the run never
\* opens the record for writing; once the pass is finished the record is
\* absent, deleted (and the flag set) if there was one, even an empty one.
\* The run never hands an empty version to fp.write, and a record written by
\* a pass is not empty.
C7_EmptyRemote ==
  \A r \in SeqRuns : \A a \in Areas :
    /\ (pc[r] # "idle" /\ remote[a] # None /\ RemoteVersion(a) = <<>>) =>
         /\ ops[r][a] \notin {"open", "write", "open_failed", "write_failed"}
         /\ Passed(r, a) =>
              /\ files[a] = None
              /\ start_files[r][a] # None => (ops[r][a] = "unlink" /\ need_nginx_sync[r])
              /\ start_files[r][a] = None => ops[r][a] = "none"
    /\ (pc[r] \in {"open", "write"} /\ Cur(r) = a) => remote_version[r] # <<>>
    /\ ops[r][a] = "write" => files[a] # Some(<<>>)

W7_EmptyRecordDeletedOnBlankRemote ==
  \E r \in SeqRuns : \E a \in Areas :
    /\ Passed(r, a)
    /\ remote[a] = Some(<<" ">>)
    /\ start_files[r][a] = Some(<<>>)
    /\ files[a] = None
    /\ need_nginx_sync[r]

\* ------------------------------------------------------------------ C8
\* C8 as claimed: after a crash while a run writes a new version, the record
\* holds the complete old value (or is still absent) or the complete new value.
C8_AtomicWrite ==
  \A r \in SeqRuns :
    (pc[r] = "killed" /\ at[r] \in {"open", "write"})
    => files[Cur(r)] \in {start_files[r][Cur(r)], Some(remote_version[r])}

\* ------------------------------------------------------------------ C9
\* what a single run leaves in the record of a, given the environment
SequentialResult(a) == IF Adoptable(a) THEN Some(RemoteVersion(a)) ELSE None

\* C9 as claimed: with two overlapping runs no run fails on a file operation,
\* and when both have returned the files are what one run alone leaves.
C9_OverlappingRunsSerialized ==
  /\ \A r \in Runs : pc[r] = "raised" => at[r] = "fetch"
  /\ (\A r \in Runs : pc[r] = "returned") => \A a \in Areas : files[a] = SequentialResult(a)

\* ------------------------------------------------------------------ C10
\* C10: a failed unlink, open or write ends the run with the exception at
\* that very operation: the run is not in the loop any more and has not
\* returned, and its flag counts only the changes made before.
C10_StoreFailureRaises ==
  \A r \in SeqRuns : \A a \in Areas :
    ops[r][a] \in {"unlink_failed", "open_failed", "write_failed"} =>
      /\ pc[r] = "raised"
      /\ Cur(r) = a
      /\ at[r] = CASE ops[r][a] = "unlink_failed" -> "unlink"
                   [] ops[r][a] = "open_failed" -> "open"
                   [] OTHER -> "write"
      /\ need_nginx_sync[r] <=> \E b \in Areas \ {a} : Changed(r, b)

W10_DeleteFailedAfterEarlierChange ==
  \E r \in SeqRuns :
    /\ pc[r] = "raised"
    /\ ops[r][AreaList[2]] = "unlink_failed"
    /\ files[AreaList[2]] # None
    /\ Changed(r, AreaList[1])
    /\ need_nginx_sync[r]
\* ------------------------------------------------------------------ C11
\* C11: when a run has returned, the record of every area is absent if the
\* remote version is empty or its artifact is not mounted, and otherwise is
\* exactly the stripped remote version, whatever the record was before.
C11_PostState ==
  \A r \in SeqRuns :
    pc[r] = "returned" =>
      \A a \in Areas :
        files[a] = IF RemoteVersion(a) = <<>> \/ <<a, RemoteVersion(a)>> \notin mnt
                   THEN None
                   ELSE Some(RemoteVersion(a))

W11_ReplacedAndCreated ==
  \E r \in SeqRuns :
    /\ pc[r] = "returned"
    /\ remote[AreaList[1]] = Some(<<"a", " ">>)
    /\ start_files[r][AreaList[1]] = Some(<<"b">>)
    /\ files[AreaList[1]] = Some(<<"a">>)
    /\ start_files[r][AreaList[2]] = None
    /\ files[AreaList[2]] # None

\* ------------------------------------------------------------------ C12
\* C12: for an area whose record equals the non-empty remote version and
\* whose artifact is mounted, the run never reaches unlink or open for that
\* area, performs no file operation on its record, leaves it as it was, and
\* the flag is set only by other areas.
C12_SteadyStateNoWrites ==
  \A r \in SeqRuns : \A a \in Areas :
    ( /\ pc[r] # "idle"
      /\ remote[a] # None
      /\ Adoptable(a)
      /\ start_files[r][a] = Some(RemoteVersion(a)) )
    => /\ ops[r][a] = "none"
       /\ files[a] = start_files[r][a]
       /\ Cur(r) = a => pc[r] \notin {"unlink", "open", "write"}
       /\ need_nginx_sync[r] <=> \E b \in Areas \ {a} : Passed(r, b) /\ Changed(r, b)

W12_SteadyAreaPassed ==
  \E r \in SeqRuns : \E a \in Areas :
    /\ pc[r] = "returned"
    /\ remote[a] = Some(<<"a", " ">>)
    /\ <<a, <<"a">>>> \in mnt
    /\ start_files[r][a] = Some(<<"a">>)
    /\ files[a] = Some(<<"a">>)
    /\ ~need_nginx_sync[r]

\* ------------------------------------------------------------------ C13
Reverse(seq) == [i \in 1..Len(seq) |-> seq[Len(seq) + 1 - i]]

\* the loop of deploy_tileset over the areas order[i..], without I/O errors on
\* the local files: the files it leaves and what the call yields
RECURSIVE LoopFrom(_, _, _, _)
LoopFrom(order, i, fs, flag) ==
  IF i > Len(order)
  THEN [files |-> fs, result |-> IF flag THEN "true" ELSE "false"]
  ELSE LET a == order[i]
       IN IF remote[a] = None
          THEN [files |-> fs, result |-> "raised"]
          ELSE LET rv == Strip(remote[a][1])
                   d == Decision(a, rv, fs[a])
               IN IF d = "unlink" THEN LoopFrom(order, i + 1, [fs EXCEPT ![a] = None], TRUE)
                  ELSE IF d = "open" THEN LoopFrom(order, i + 1, [fs EXCEPT ![a] = Some(rv)], TRUE)
                  ELSE LoopFrom(order, i + 1, fs, flag)

\* what the call of run r yielded
Outcome(r) ==
  IF pc[r] = "returned" THEN (IF need_nginx_sync[r] THEN "true" ELSE "false") ELSE pc[r]

\* C13 as claimed: a run over planet, monaco that returned or stopped on a
\* failed lookup leaves the files, and yields the result, that the loop over
\* monaco, planet gives from the same files and environment.
C13_OrderIndependent ==
  \A r \in SeqRuns :
    (pc[r] = "returned" \/ (pc[r] = "raised" /\ at[r] = "fetch")) =>
      LET other == LoopFrom(Reverse(AreaList), 1, start_files[r], FALSE)
      IN /\ files = other.files
         /\ Outcome(r) = other.result

\* ------------------------------------------------------------------ C14
\* C14 as claimed: once a run has created, updated or deleted a record, and
\* the remote versions and the mounts stay as they are, the first call that
\* returns from then on (the same run, or a later one if that run was
\* aborted by a failed lookup or file operation) returns True: no call
\* returns False while a change is unsignalled.
C14_ChangeSignalled ==
  \A r \in SeqRuns : pc[r] = "returned" => ~unsignalled

====
